---- MODULE Spec2Model ----
(***************************************************************************)
(* Model of src/monitor.py: the poll / notify loop of run(), notify() with *)
(* its three steps, the daemon threads running                             *)
(* send_delayed_friend_emails(), and the cell scan of fetch_enrollment().  *)
(* Spec and FairSpec run the loop; ExtractSpec applies the cell scan to    *)
(* bounded sequences of cells.                                             *)
(*                                                                         *)
(* Time: only time.sleep() lets time pass.  Tick advances time to the next *)
(* moment at which some sleeper's requested duration has elapsed.  A       *)
(* sleeper whose duration has elapsed may resume at any later step         *)
(* (time.sleep suspends for at least the requested time).                  *)
(***************************************************************************)
EXTENDS Integers, Sequences, FiniteSets, TLC

VARIABLES
    pc,                    \* position of the main thread in run()
    consecutive_failures,  \* run() local, line 153
    notified,              \* run() local, line 154
    counts,                \* run() locals (enrl, lim), line 168 (Unset before
                           \* the first successful poll)
    sleepArg,              \* argument of the main thread's latest time.sleep():
                           \* wait (lines 162-164, 187-189) or
                           \* CHECK_INTERVAL_SECONDS (line 195)
    sleepLeft,             \* what is left of that sleep
    threads,               \* the threads started at line 111, in start order
    outcome,               \* what fetch_enrollment() did in the current iteration
    notifyCalls,           \* calls of notify() in the current iteration
    notifyArgs,            \* (title, message) of that call, line 175
    alertRes,              \* what subprocess.run did in the current iteration
    emailRes,              \* what the primary send_email did in the current iteration
    logged,                \* log lines emitted in the current iteration
    hist,                  \* history of the run, read by the properties only:
                           \*   failsSinceOk  failed polls since the latest success
                           \*   sleepCalls    time.sleep calls of the main thread
                           \*                 since the latest poll
                           \*   slept         time the main thread has slept since
                           \*                 the latest poll
                           \*   openPolls     successful polls with enrl < lim
                           \*   notifyDone    notify calls that reached line 111
    cells,                 \* fetch_enrollment(): the texts of the <td> cells,
                           \* line 130 (ExtractSpec)
    result                 \* fetch_enrollment(): what the scan of lines 131-146
                           \* produced (ExtractSpec)

xvars == <<cells, result>>

vars == <<pc, consecutive_failures, notified, counts, sleepArg, sleepLeft,
          threads, outcome, notifyCalls, notifyArgs, alertRes, emailRes, logged,
          hist, cells, result>>

\* ---- bounds of the model ------------------------------------------------
MaxCount == 1        \* enrolment figures range over 0..MaxCount
MaxFailures == 4     \* longest run of consecutive failed polls
MaxThreads == 2      \* background threads started in one behaviour
MaxCells == 19       \* longest sequence of cells handed to the scan
MaxRowStart == 3     \* last position at which the scan's inputs place the CRN

\* ---- configuration, lines 22-28 ------------------------------------------
COURSE_NAME == "COSC 031 - Algorithms"
CHECK_INTERVAL_SECONDS == 5 * 60
MAX_BACKOFF_SECONDS == 30 * 60
FRIEND_DELAY_SECONDS == 2 * 60

Unset == <<>>
NotRun == <<"not_run">>
Counts == 0..MaxCount

Min2(a, b) == IF a <= b THEN a ELSE b
Max2(a, b) == IF a >= b THEN a ELSE b

RECURSIVE Pow2(_)
Pow2(n) == IF n <= 0 THEN 1 ELSE 2 * Pow2(n - 1)

\* ---- run(): pure parts ---------------------------------------------------
\* lines 162 and 187: wait = min(CHECK_INTERVAL_SECONDS * 2**n, MAX_BACKOFF_SECONDS)
BackoffUncapped(n) == CHECK_INTERVAL_SECONDS * Pow2(n)
Backoff(n) == Min2(CHECK_INTERVAL_SECONDS * Pow2(n), MAX_BACKOFF_SECONDS)

\* line 187: the same expression, written a second time in the handler of
\* requests.RequestException
BackoffOnErrorSlower(n) == Min2(CHECK_INTERVAL_SECONDS * Pow2(n + 1), MAX_BACKOFF_SECONDS)
BackoffOnError(n) == Min2(CHECK_INTERVAL_SECONDS * Pow2(n), MAX_BACKOFF_SECONDS)

\* lines 161 and 186: consecutive_failures += 1
FailuresPlusTwo(n) == n + 2
NextFailures(n) == n + 1

\* lines 164, 189, 195: time.sleep(d) suspends the main thread for d
SleepSkipped(d) == d - d
SleepFor(d) == d

\* line 167: consecutive_failures = 0
FailuresKept(n) == n
FailuresDecayed(n) == IF n > 0 THEN n - 1 ELSE 0
FailuresAfterSuccess(n) == 0

\* line 195: time.sleep(CHECK_INTERVAL_SECONDS)
IdleSleep == CHECK_INTERVAL_SECONDS

\* line 171: the test that guards the notify branch
OpenOnTransition(e, l, n) == e < l /\ ~n
SeatOpen(e, l, n) == e < l

\* lines 172-175: the title, and msg built from spots, enrl and lim
Title == <<"SPOT OPEN", COURSE_NAME>>
Msg(e, l) == <<l - e, "spot(s) open! Enrolled:", e, l>>

\* lines 177-178: if not notified: notified = True
NotifiedAfterOpen(n) == IF ~n THEN TRUE ELSE n

\* lines 181-183: if notified: log "Class is full again."; notified = False
NotifiedStuck(n) == n
NotifiedAfterFull(n) == IF n THEN FALSE ELSE n
LogFullAlways(n) == {"full_again"}
LogAfterFull(n) == IF n THEN {"full_again"} ELSE {}

\* ---- notify() and the background thread ---------------------------------
\* line 111: Thread(target=send_delayed_friend_emails, args=(title, message)).start()
\* st: "running" until send_email (line 98) has returned, then "sent" or
\*     "failed"; "killed" when the process exits first
\* left: what is left of time.sleep(FRIEND_DELAY_SECONDS), line 97
\* waited: time elapsed since start(), counted up to FRIEND_DELAY_SECONDS
\* mails: the messages the thread has handed to SMTP (lines 82-89), one for
\*     each call of send_email it has made (line 98)
\* mail: the message handed to SMTP by that call, lines 82-85
NewThreadNoDelay(t, m) ==
    [title |-> t, message |-> m, left |-> 0, waited |-> 0, st |-> "running",
     mails |-> <<>>]
NewThread(t, m) ==
    [title |-> t, message |-> m, left |-> FRIEND_DELAY_SECONDS, waited |-> 0,
     st |-> "running", mails |-> <<>>]

\* lines 82-85: MIMEText(message + footer), Subject, From, To
ENROLL_URL == "https://oracle-www.dartmouth.edu/dart/groucho/timetable.main"
Email(title, message, recipients) ==
    [subject |-> title,
     body |-> <<message, "Go enroll now!", ENROLL_URL>>,
     from |-> "EMAIL_ADDRESS",
     to |-> recipients]

\* line 98: send_email(title, message, FRIEND_EMAILS) with the arguments the
\* thread was started with; r is how the SMTP session ended
ThreadLateBound(th, r) ==
    [th EXCEPT !.st = r,
               !.mails = Append(@, Email(IF notifyArgs = Unset THEN Unset ELSE notifyArgs[1],
                                         IF notifyArgs = Unset THEN Unset ELSE notifyArgs[2],
                                         "FRIEND_EMAILS"))]
ThreadResending(th, r) ==
    [th EXCEPT !.mails = Append(@, Email(th.title, th.message, "FRIEND_EMAILS"))]
ThreadAfterEmail(th, r) ==
    [th EXCEPT !.st = r,
               !.mails = Append(@, Email(th.title, th.message, "FRIEND_EMAILS"))]

Pending(th) == th.st = "running"
Attempted(th) == th.st \in {"sent", "failed"}

\* line 111, daemon=True: when the main thread ends the interpreter exits and
\* the threads that are still running are abandoned
ExitJoining(ths) == ths
AtExit(ths) ==
    [i \in 1..Len(ths) |->
        IF Pending(ths[i]) THEN [ths[i] EXCEPT !.st = "killed"] ELSE ths[i]]

\* lines 157-193: where a KeyboardInterrupt is caught by line 191.  The sleep
\* of line 189 is inside the handler of line 185 and the sleep of line 195 is
\* after the try statement; neither is covered by line 191.
InTry(p) == p \in {"fetch", "backoff_none", "alert", "email", "thread"}

Enrl == counts[1]
Lim == counts[2]

Sleeping == {"backoff_none", "backoff_exc", "idle"}
Ended == {"stopped", "interrupted", "crashed"}

\* subprocess.run, lines 104-107: osascript ran and exited with status 0, ran
\* and exited with another status, or could not be executed
AlertOutcomes == {"ok", "nonzero", "oserror"}
\* lines 87-92: the SMTP session went well, or raised
EmailOutcomes == {"sent", "failed"}

\* ---- initial state, lines 153-154 ---------------------------------------
LoopInit ==
    /\ pc = "fetch"
    /\ consecutive_failures = 0
    /\ notified = FALSE
    /\ counts = Unset
    /\ sleepArg = 0
    /\ sleepLeft = 0
    /\ threads = <<>>
    /\ outcome = "none"
    /\ notifyCalls = 0
    /\ notifyArgs = Unset
    /\ alertRes = "none"
    /\ emailRes = "none"
    /\ logged = {}
    /\ hist = [failsSinceOk |-> 0, sleepCalls |-> 0, slept |-> 0,
               openPolls |-> 0, notifyDone |-> 0]

Init ==
    /\ LoopInit
    /\ cells = <<>>
    /\ result = NotRun

\* ---- run(): the poll step -----------------------------------------------
\* lines 158-165: fetch_enrollment() returned None
FetchNone ==
    /\ pc = "fetch"
    /\ consecutive_failures < MaxFailures
    /\ consecutive_failures' = NextFailures(consecutive_failures)
    /\ sleepArg' = Backoff(consecutive_failures')
    /\ sleepLeft' = SleepFor(sleepArg')
    /\ logged' = {"fetch_failed"}
    /\ pc' = "backoff_none"
    /\ outcome' = "notfound"
    /\ notifyCalls' = 0
    /\ notifyArgs' = Unset
    /\ alertRes' = "none"
    /\ emailRes' = "none"
    /\ hist' = [hist EXCEPT !.failsSinceOk = @ + 1, !.sleepCalls = 1, !.slept = 0]
    /\ UNCHANGED <<notified, counts, threads>>
    /\ UNCHANGED xvars

\* lines 158, 185-190: fetch_enrollment() raised requests.RequestException
FetchRaise ==
    /\ pc = "fetch"
    /\ consecutive_failures < MaxFailures
    /\ consecutive_failures' = NextFailures(consecutive_failures)
    /\ sleepArg' = BackoffOnError(consecutive_failures')
    /\ sleepLeft' = SleepFor(sleepArg')
    /\ logged' = {"request_error"}
    /\ pc' = "backoff_exc"
    /\ outcome' = "transport"
    /\ notifyCalls' = 0
    /\ notifyArgs' = Unset
    /\ alertRes' = "none"
    /\ emailRes' = "none"
    /\ hist' = [hist EXCEPT !.failsSinceOk = @ + 1, !.sleepCalls = 1, !.slept = 0]
    /\ UNCHANGED <<notified, counts, threads>>
    /\ UNCHANGED xvars

\* lines 158, 167-183: fetch_enrollment() returned (e, l).  With a seat open
\* run() logs, builds msg and calls notify (lines 171-175); otherwise it
\* takes the else branch (lines 180-183) and goes to the sleep of line 195.
FetchOk(e, l) ==
    /\ pc = "fetch"
    /\ SeatOpen(e, l, notified) => Len(threads) < MaxThreads
    /\ consecutive_failures' = FailuresAfterSuccess(consecutive_failures)
    /\ counts' = <<e, l>>
    /\ outcome' = "ok"
    /\ alertRes' = "none"
    /\ emailRes' = "none"
    /\ IF SeatOpen(e, l, notified)
       THEN /\ logged' = {"enrolled", "spot_available"}
            /\ notifyCalls' = 1
            /\ notifyArgs' = <<Title, Msg(e, l)>>
            /\ pc' = "alert"
            /\ hist' = [hist EXCEPT !.failsSinceOk = 0, !.sleepCalls = 0,
                                    !.slept = 0, !.openPolls = @ + 1]
            /\ UNCHANGED <<notified, sleepArg, sleepLeft>>
       ELSE /\ logged' = {"enrolled"} \cup LogAfterFull(notified)
            /\ notified' = NotifiedAfterFull(notified)
            /\ notifyCalls' = 0
            /\ notifyArgs' = Unset
            /\ sleepArg' = IdleSleep
            /\ sleepLeft' = SleepFor(sleepArg')
            /\ pc' = "idle"
            /\ hist' = [hist EXCEPT !.failsSinceOk = 0, !.sleepCalls = 1,
                                    !.slept = 0]
    /\ UNCHANGED threads
    /\ UNCHANGED xvars

\* ---- notify() -----------------------------------------------------------
\* lines 104-107: subprocess.run without check=True.  A non-zero exit status
\* is ignored; OSError (osascript cannot be executed) is raised to run(),
\* where neither line 185 nor line 191 catches it.
Alert(r) ==
    /\ pc = "alert"
    /\ alertRes' = r
    /\ IF r = "oserror"
       THEN /\ pc' = "crashed"
            /\ threads' = AtExit(threads)
       ELSE /\ pc' = "email"
            /\ UNCHANGED threads
    /\ UNCHANGED <<consecutive_failures, notified, counts, sleepArg, sleepLeft,
                   outcome, notifyCalls, notifyArgs, emailRes, logged, hist>>
    /\ UNCHANGED xvars

\* line 109 and lines 77-92: send_email to the primary recipient; a failure
\* is caught at line 91 and logged
PrimaryEmail(r) ==
    /\ pc = "email"
    /\ emailRes' = r
    /\ logged' = logged \cup {IF r = "sent" THEN "email_sent" ELSE "email_failed"}
    /\ pc' = "thread"
    /\ UNCHANGED <<consecutive_failures, notified, counts, sleepArg, sleepLeft,
                   threads, outcome, notifyCalls, notifyArgs, alertRes, hist>>
    /\ UNCHANGED xvars

\* line 111, then back in run(): lines 177-178 and the sleep of line 195
StartThread ==
    /\ pc = "thread"
    /\ threads' = Append(threads, NewThread(notifyArgs[1], notifyArgs[2]))
    /\ notified' = NotifiedAfterOpen(notified)
    /\ sleepArg' = IdleSleep
    /\ sleepLeft' = SleepFor(sleepArg')
    /\ pc' = "idle"
    /\ hist' = [hist EXCEPT !.notifyDone = @ + 1, !.sleepCalls = @ + 1]
    /\ UNCHANGED <<consecutive_failures, counts, outcome, notifyCalls,
                   notifyArgs, alertRes, emailRes, logged>>
    /\ UNCHANGED xvars

\* ---- sleeping and waking ------------------------------------------------
SleepersLeft ==
    {sleepLeft} \cup
    {threads[i].left : i \in {j \in 1..Len(threads) :
                                 threads[j].st = "running" /\ threads[j].left > 0}}

NextWake == CHOOSE d \in SleepersLeft : \A x \in SleepersLeft : d <= x

\* time passes while the main thread sleeps (lines 164, 189, 195) and the
\* background threads sleep (line 97)
Tick ==
    /\ pc \in Sleeping
    /\ sleepLeft > 0
    /\ sleepLeft' = sleepLeft - NextWake
    /\ threads' = [i \in 1..Len(threads) |->
                     IF threads[i].st = "running"
                     THEN [threads[i] EXCEPT
                             !.left = Max2(@ - NextWake, 0),
                             !.waited = Min2(@ + NextWake, FRIEND_DELAY_SECONDS)]
                     ELSE threads[i]]
    /\ hist' = [hist EXCEPT !.slept = @ + NextWake]
    /\ UNCHANGED <<pc, consecutive_failures, notified, counts, sleepArg,
                   outcome, notifyCalls, notifyArgs, alertRes, emailRes, logged>>
    /\ UNCHANGED xvars

\* lines 164-165 and 189-190: the backoff sleep returns; continue
WakeBackoff ==
    /\ pc \in {"backoff_none", "backoff_exc"}
    /\ sleepLeft = 0
    /\ pc' = "fetch"
    /\ UNCHANGED <<consecutive_failures, notified, counts, sleepArg, sleepLeft,
                   threads, outcome, notifyCalls, notifyArgs, alertRes,
                   emailRes, logged, hist>>
    /\ UNCHANGED xvars

\* line 195: the idle sleep returns; next iteration
WakeIdle ==
    /\ pc = "idle"
    /\ sleepLeft = 0
    /\ pc' = "fetch"
    /\ UNCHANGED <<consecutive_failures, notified, counts, sleepArg, sleepLeft,
                   threads, outcome, notifyCalls, notifyArgs, alertRes,
                   emailRes, logged, hist>>
    /\ UNCHANGED xvars

\* ---- send_delayed_friend_emails(), lines 95-98 --------------------------
\* line 97 has returned; send_email(title, message, FRIEND_EMAILS) sends
\* (line 90) or fails and logs (lines 91-92); the thread ends
FriendEmail(i, r) ==
    /\ pc \notin Ended
    /\ i \in 1..Len(threads)
    /\ threads[i].st = "running"
    /\ threads[i].left = 0
    /\ threads' = [threads EXCEPT ![i] = ThreadAfterEmail(threads[i], r)]
    /\ UNCHANGED <<pc, consecutive_failures, notified, counts, sleepArg,
                   sleepLeft, outcome, notifyCalls, notifyArgs, alertRes,
                   emailRes, logged, hist>>
    /\ UNCHANGED xvars

\* ---- KeyboardInterrupt --------------------------------------------------
\* lines 191-193 when raised inside the try body; otherwise it leaves run()
\* uncaught.  Either way the main thread ends and the process exits.
Interrupt ==
    /\ pc \notin Ended
    /\ IF InTry(pc)
       THEN /\ pc' = "stopped"
            /\ logged' = logged \cup {"stopped_by_user"}
       ELSE /\ pc' = "interrupted"
            /\ UNCHANGED logged
    /\ threads' = AtExit(threads)
    /\ UNCHANGED <<consecutive_failures, notified, counts, sleepArg, sleepLeft,
                   outcome, notifyCalls, notifyArgs, alertRes, emailRes, hist>>
    /\ UNCHANGED xvars

Next ==
    \/ FetchNone
    \/ FetchRaise
    \/ \E e \in Counts, l \in Counts : FetchOk(e, l)
    \/ \E r \in AlertOutcomes : Alert(r)
    \/ \E r \in EmailOutcomes : PrimaryEmail(r)
    \/ StartThread
    \/ Tick
    \/ WakeBackoff
    \/ WakeIdle
    \/ \E i \in 1..MaxThreads, r \in EmailOutcomes : FriendEmail(i, r)
    \/ Interrupt

Spec == Init /\ [][Next]_vars

\* ---- fetch_enrollment(): the scan of the cells, lines 130-146 ------------
\* A cell is its stripped text (get_text(strip=True)), a sequence of characters.
TARGET_CRN == <<"3", "1", "3", "2", "2">>

DigitChars == <<"0", "1", "2", "3", "4", "5", "6", "7", "8", "9">>
IsDigit(c) == \E d \in 1..Len(DigitChars) : DigitChars[d] = c
DigitValue(c) == (CHOOSE d \in 1..Len(DigitChars) : DigitChars[d] = c) - 1

RECURSIVE DigitsValue(_)
DigitsValue(t) ==
    IF t = <<>> THEN 0
    ELSE 10 * DigitsValue(SubSeq(t, 1, Len(t) - 1)) + DigitValue(t[Len(t)])

\* line 140: int(text).  An optional sign and at least one digit give an
\* integer; any other text of the model's alphabet raises ValueError.
ParseInt(t) ==
    LET signed == Len(t) > 0 /\ t[1] \in {"-", "+"}
        digits == IF signed THEN Tail(t) ELSE t
    IN  IF Len(digits) > 0 /\ \A i \in 1..Len(digits) : IsDigit(digits[i])
        THEN <<"int", IF signed /\ t[1] = "-" THEN 0 - DigitsValue(digits)
                      ELSE DigitsValue(digits)>>
        ELSE <<"ValueError">>

\* lines 138-139: Lim is read at i + 15 and Enrl at i + 16
LIM_OFFSET == 15
ENRL_OFFSET == 16

None == <<"None">>

\* lines 137-140 for a match at cell i: the pair, or the exception raised
PairSwapped(cs, i) ==
    IF i + LIM_OFFSET > Len(cs) \/ i + ENRL_OFFSET > Len(cs) THEN <<"raise", "IndexError">>
    ELSE LET e == ParseInt(cs[i + LIM_OFFSET])
             l == ParseInt(cs[i + ENRL_OFFSET])
         IN  IF e[1] = "ValueError" \/ l[1] = "ValueError"
             THEN <<"raise", "ValueError">>
             ELSE <<"pair", e[2], l[2]>>
PairAt(cs, i) ==
    IF i + LIM_OFFSET > Len(cs) THEN <<"raise", "IndexError">>
    ELSE IF i + ENRL_OFFSET > Len(cs) THEN <<"raise", "IndexError">>
    ELSE LET e == ParseInt(cs[i + ENRL_OFFSET])
             l == ParseInt(cs[i + LIM_OFFSET])
         IN  IF e[1] = "ValueError" THEN <<"raise", "ValueError">>
             ELSE IF l[1] = "ValueError" THEN <<"raise", "ValueError">>
             ELSE <<"pair", e[2], l[2]>>

\* line 141: except (IndexError, ValueError)
HandledValueErrorOnly(x) == x = "ValueError"
Handled(x) == x \in {"IndexError", "ValueError"}

RECURSIVE ScanFrom(_, _)

\* lines 142-143: log a warning and return None
OnFailureKeepScanning(cs, i) == ScanFrom(cs, i + 1)
OnFailure(cs, i) == None

\* lines 131-146: the loop over the cells, from cell i on
ScanFrom(cs, i) ==
    IF i > Len(cs) THEN None
    ELSE IF cs[i] = TARGET_CRN
         THEN LET r == PairAt(cs, i)
              IN  IF r[1] = "raise"
                  THEN IF Handled(r[2]) THEN OnFailure(cs, i) ELSE r
                  ELSE r
         ELSE ScanFrom(cs, i + 1)

Extract(cs) == ScanFrom(cs, 1)

\* ---- the inputs of the scan ------------------------------------------------
\* str(n) for n >= 0
RECURSIVE Str(_)
Str(n) ==
    IF n < 10 THEN <<DigitChars[n + 1]>>
    ELSE Append(Str(n \div 10), DigitChars[(n % 10) + 1])

Numbers == (0..MaxCount) \cup {10 + MaxCount}
Filler == <<"x">>
Texts ==
    {Str(n) : n \in Numbers} \cup
    {<<"-">> \o Str(1), <<>>, Filler, <<"1", "x">>}

\* the second row's Lim and Enrl cells: a valid pair, or text
SecondRows == {<<Str(1), Str(0)>>, <<Filler, Filler>>}

\* n cells; the CRN at c1 and c2 (0: nowhere); v at the offsets from c1 and w
\* at the offsets from c2; filler text in every other cell
Page(n, c1, c2, v, w) ==
    [i \in 1..n |->
        IF i \in {c1, c2} THEN TARGET_CRN
        ELSE IF i = c1 + LIM_OFFSET THEN v[1]
        ELSE IF i = c1 + ENRL_OFFSET THEN v[2]
        ELSE IF i = c2 + LIM_OFFSET THEN w[1]
        ELSE IF i = c2 + ENRL_OFFSET THEN w[2]
        ELSE Filler]

Lengths == {0} \cup ((LIM_OFFSET - 1)..MaxCells)

Pages ==
    {Page(n, c1, c2, v, w) :
        n \in Lengths, c1 \in 0..(MaxRowStart - 1), c2 \in 0..MaxRowStart,
        v \in Texts \X Texts, w \in SecondRows}

ExtractInit ==
    /\ LoopInit
    /\ cells \in Pages
    /\ result = NotRun

\* fetch_enrollment() scans the cells and returns
ExtractStep ==
    /\ result = NotRun
    /\ result' = Extract(cells)
    /\ UNCHANGED <<pc, consecutive_failures, notified, counts, sleepArg,
                   sleepLeft, threads, outcome, notifyCalls, notifyArgs,
                   alertRes, emailRes, logged, hist, cells>>

ExtractNext == ExtractStep

ExtractSpec == ExtractInit /\ [][ExtractNext]_vars

\* the background threads are scheduled and time passes; the interrupt and
\* the results of polls are the environment's and get no fairness
FairSpec ==
    /\ Spec
    /\ WF_vars(Tick)
    /\ \A i \in 1..MaxThreads : WF_vars(\E r \in EmailOutcomes : FriendEmail(i, r))

\* ---- steps named by the properties --------------------------------------
\* a step of the main thread that completes a poll
PollStep == pc = "fetch" /\ pc' \notin (Ended \cup {"fetch"})
OkPollStep == PollStep /\ outcome' = "ok"
FailedPollStep == PollStep /\ outcome' \in {"notfound", "transport"}

\* ---- C1 -----------------------------------------------------------------
\* C1: notified is true only if the most recent successful poll observed
\* enrolled < limit; a successful poll that observes enrolled >= limit has
\* left notified false.
C1_NotifiedOnlyWhileOpen ==
    notified => (counts # Unset /\ Enrl < Lim)

C1_Witness ==
    /\ pc = "idle"
    /\ outcome = "ok"
    /\ notified
    /\ Enrl < Lim

C3_FullPoll ==
    [][(OkPollStep /\ counts'[1] >= counts'[2]) =>
         /\ notifyCalls' = 0
         /\ pc' = "idle"
         /\ threads' = threads
         /\ notified' = FALSE
         /\ ("full_again" \in logged') <=> notified]_vars

C3_Witness ==
    /\ pc = "idle"
    /\ outcome = "ok"
    /\ Enrl >= Lim
    /\ "full_again" \in logged
    /\ ~notified
    /\ notifyCalls = 0

\* ---- C4 -----------------------------------------------------------------
\* C4: the wait after the n-th consecutive failed poll is
\* min(CHECK_INTERVAL_SECONDS * 2^n, MAX_BACKOFF_SECONDS) with n >= 1 counted
\* after the increment, it is what the loop sleeps, it never exceeds
\* MAX_BACKOFF_SECONDS, and across consecutive failures it never decreases.
C4_BackoffState ==
    pc \in {"backoff_none", "backoff_exc"} =>
        /\ consecutive_failures >= 1
        /\ sleepArg = Min2(CHECK_INTERVAL_SECONDS * (2 ^ consecutive_failures),
                           MAX_BACKOFF_SECONDS)
        /\ sleepArg <= MAX_BACKOFF_SECONDS
        /\ sleepLeft <= sleepArg

C4_BackoffStep ==
    (FailedPollStep /\ consecutive_failures >= 1) =>
        /\ consecutive_failures' = consecutive_failures + 1
        /\ sleepArg' >= sleepArg

C4_Backoff == [](C4_BackoffState) /\ [][C4_BackoffStep]_vars

\* the fourth failure in a row: 300 * 2^4 = 4800 is cut to the maximum
C4_Witness ==
    /\ pc \in {"backoff_none", "backoff_exc"}
    /\ consecutive_failures = 4
    /\ sleepArg = MAX_BACKOFF_SECONDS
    /\ sleepLeft = 0

\* ---- C5 -----------------------------------------------------------------
\* C5: a successful poll sets consecutive_failures to 0, the sleep after it
\* is CHECK_INTERVAL_SECONDS, and a failure right after it waits as a first
\* failure, however many failures came before the success.
C5_ResetState ==
    /\ outcome = "ok" => consecutive_failures = 0
    /\ pc = "idle" => (outcome = "ok" /\ sleepArg = CHECK_INTERVAL_SECONDS
                       /\ sleepLeft <= CHECK_INTERVAL_SECONDS)

C5_ResetStep ==
    /\ OkPollStep => consecutive_failures' = 0
    /\ (FailedPollStep /\ outcome = "ok") =>
          /\ consecutive_failures' = 1
          /\ sleepArg' = Min2(CHECK_INTERVAL_SECONDS * 2, MAX_BACKOFF_SECONDS)
          /\ sleepLeft' = sleepArg'

C5_Reset == [](C5_ResetState) /\ [][C5_ResetStep]_vars

\* a failure that follows a success (counts is set): it waits 600 seconds
C5_Witness ==
    /\ pc \in {"backoff_none", "backoff_exc"}
    /\ counts # Unset
    /\ consecutive_failures = 1
    /\ sleepArg = 2 * CHECK_INTERVAL_SECONDS

\* ---- C6 -----------------------------------------------------------------
\* C6: no failure of a poll iteration ends the loop of run(); the loop ends
\* only by a user interrupt.
C6_OnlyInterruptEndsLoop ==
    pc \in Ended => pc \in {"stopped", "interrupted"}

\* ---- C7 -----------------------------------------------------------------
\* C7: an interrupt delivered at any point of the loop stops it cleanly: the
\* loop exits through line 193 with the "Stopped by user" line logged.
C7_InterruptStopsCleanly ==
    pc \in {"stopped", "interrupted"} =>
        (pc = "stopped" /\ "stopped_by_user" \in logged)

\* ---- C8 -----------------------------------------------------------------
\* C8: notify returns without waiting for the friend delay (when it returns,
\* the thread it started has its whole delay ahead and the main thread goes
\* on to its own sleep), and no secondary email is sent before
\* FRIEND_DELAY_SECONDS have elapsed since notify started its thread.
C8_DelayState ==
    \A i \in 1..Len(threads) :
        threads[i].st \in {"sent", "failed"} =>
            threads[i].waited >= FRIEND_DELAY_SECONDS

C8_ReturnStep ==
    (pc = "thread" /\ pc' \notin (Ended \cup {"thread"})) =>
        /\ Len(threads') = Len(threads) + 1
        /\ threads'[Len(threads')].st = "running"
        /\ threads'[Len(threads')].waited = 0
        /\ pc' = "idle"
        /\ sleepLeft' = CHECK_INTERVAL_SECONDS

C8_NotifyDoesNotWait == [](C8_DelayState) /\ [][C8_ReturnStep]_vars

\* the loop has made a further poll, and is in notify again, while the
\* secondary email of the first notification is still to be sent
C8_Witness ==
    /\ pc = "alert"
    /\ Len(threads) = 1
    /\ threads[1].st = "running"
    /\ threads[1].waited = FRIEND_DELAY_SECONDS

\* ---- C9 -----------------------------------------------------------------
\* C9 as stated: no secondary email that notify scheduled is ever dropped
\* before it is attempted, not even when the main loop ends first.
C9_NeverDropped ==
    \A i \in 1..Len(threads) : threads[i].st # "killed"

\* C9, amended: while the process runs every scheduled secondary email is
\* eventually attempted and nothing cancels it (a later poll that sees the
\* course full leaves the threads alone); the threads still pending when the
\* main thread ends are abandoned, and only those.
C9_StateOf(i) == IF i <= Len(threads) THEN threads[i].st ELSE "none"

C9_PendingLeadsTo(i) ==
    (C9_StateOf(i) = "running") ~>
        (C9_StateOf(i) \in {"sent", "failed"} \/ pc \in Ended)

C9_DroppedOnlyAtExit ==
    /\ (\E i \in 1..Len(threads) : threads[i].st = "killed") => pc \in Ended
    /\ pc \in Ended => \A i \in 1..Len(threads) : ~Pending(threads[i])

C9_FullPollKeepsThreads ==
    (OkPollStep /\ counts'[1] >= counts'[2]) => threads' = threads

C9_AttemptedWhileRunning ==
    /\ \A i \in 1..MaxThreads : C9_PendingLeadsTo(i)
    /\ [](C9_DroppedOnlyAtExit)
    /\ [][C9_FullPollKeepsThreads]_vars

\* a secondary email was attempted after a later poll saw the course full
C9_Witness ==
    /\ pc \notin Ended
    /\ outcome = "ok"
    /\ Enrl >= Lim
    /\ \E i \in 1..Len(threads) : Attempted(threads[i])

\* ---- C10 ----------------------------------------------------------------
\* C10: notify performs its three actions on every call: when the desktop
\* alert or the primary email has failed and notify is over, the primary
\* email has been attempted, the secondary email is scheduled, and no failure
\* has reached run().
C10_AllThreeActions ==
    (/\ notifyCalls = 1
     /\ alertRes \in {"nonzero", "oserror"} \/ emailRes = "failed"
     /\ pc \in {"idle", "crashed"}) =>
        /\ pc = "idle"
        /\ emailRes # "none"
        /\ Len(threads) >= 1
        /\ threads[Len(threads)].message = notifyArgs[2]

\* ---- C14 ----------------------------------------------------------------
\* C14: a failed poll (transport failure or None) leaves notified unchanged
\* and notifies nobody; it increments consecutive_failures by exactly 1 and
\* sleeps the backoff.
C14_FailedPollStep ==
    FailedPollStep =>
        /\ notified' = notified
        /\ notifyCalls' = 0
        /\ threads' = threads
        /\ counts' = counts
        /\ hist'.notifyDone = hist.notifyDone
        /\ consecutive_failures' = consecutive_failures + 1
        /\ pc' \in {"backoff_none", "backoff_exc"}
        /\ sleepArg' = Min2(CHECK_INTERVAL_SECONDS * (2 ^ consecutive_failures'),
                            MAX_BACKOFF_SECONDS)
        /\ sleepLeft' = sleepArg'

C14_FailedPollFrame == [][C14_FailedPollStep]_vars

\* two failed polls after a notification: notified is still true
C14_Witness ==
    /\ pc \in {"backoff_none", "backoff_exc"}
    /\ notified
    /\ consecutive_failures = 2
    /\ notifyCalls = 0
    /\ Len(threads) = 1

\* ---- C15 ----------------------------------------------------------------
\* C15: from the same state the None path and the RequestException path give
\* the same consecutive_failures, the same wait and the same notified, and
\* after either the loop polls again without the idle sleep.
\* the values a wait can take: CHECK_INTERVAL_SECONDS doubled up to the cap
C15_Waits == {Min2(CHECK_INTERVAL_SECONDS * (2 ^ k), MAX_BACKOFF_SECONDS) :
                  k \in 0..MaxFailures}

C15_SameResult ==
    (pc = "fetch" /\ consecutive_failures < MaxFailures) =>
        \A n \in 0..MaxFailures, w \in C15_Waits, b \in BOOLEAN :
            ENABLED (/\ FetchNone
                     /\ consecutive_failures' = n
                     /\ sleepArg' = w
                     /\ sleepLeft' = w
                     /\ notified' = b)
            <=>
            ENABLED (/\ FetchRaise
                     /\ consecutive_failures' = n
                     /\ sleepArg' = w
                     /\ sleepLeft' = w
                     /\ notified' = b)

C15_NoIdleSleep ==
    (pc = "fetch" /\ outcome \in {"notfound", "transport"}) =>
        /\ hist.sleepCalls = 1
        /\ hist.slept = sleepArg
        /\ sleepArg = Min2(CHECK_INTERVAL_SECONDS * (2 ^ consecutive_failures),
                           MAX_BACKOFF_SECONDS)

C15_FailurePathsAgree == C15_SameResult /\ C15_NoIdleSleep

\* back at the poll after the second failure in a row, a transport failure,
\* with notified true: both paths are possible from here
C15_Witness ==
    /\ pc = "fetch"
    /\ outcome = "transport"
    /\ consecutive_failures = 2
    /\ notified
    /\ ENABLED FetchNone
    /\ ENABLED FetchRaise

\* ---- C16 ----------------------------------------------------------------
\* C16: the secondary email carries the title and the message of the notify
\* call that started its thread, whatever the loop has polled or notified
\* since; the thread changes nothing the loop reads and the loop changes
\* nothing of a started thread's arguments.
C16_MailState ==
    \A i \in 1..Len(threads) :
        IF Attempted(threads[i])
        THEN /\ threads[i].mails # <<>>
             /\ \A k \in 1..Len(threads[i].mails) :
                   /\ threads[i].mails[k].subject = threads[i].title
                   /\ threads[i].mails[k].body[1] = threads[i].message
                   /\ threads[i].mails[k].to = "FRIEND_EMAILS"
        ELSE threads[i].mails = <<>>

C16_Step ==
    /\ \A i \in 1..Len(threads) :
          /\ Len(threads') >= Len(threads)
          /\ threads'[i].title = threads[i].title
          /\ threads'[i].message = threads[i].message
    /\ (pc = "thread" /\ Len(threads') = Len(threads) + 1) =>
          /\ threads'[Len(threads')].title = notifyArgs[1]
          /\ threads'[Len(threads')].message = notifyArgs[2]
    /\ (\E i \in 1..Len(threads) :
            /\ Len(threads') = Len(threads)
            /\ Pending(threads[i])
            /\ Attempted(threads'[i])) =>
          UNCHANGED <<pc, consecutive_failures, notified, counts, sleepArg,
                      sleepLeft, outcome, notifyCalls, notifyArgs, alertRes,
                      emailRes, logged>>

C17_CountsFailedPolls ==
    /\ consecutive_failures = hist.failsSinceOk
    /\ pc \in {"backoff_none", "backoff_exc"} =>
          /\ consecutive_failures >= 1
          /\ sleepArg >= 2 * CHECK_INTERVAL_SECONDS

\* two failed polls since a successful one
C17_Witness ==
    /\ pc \in {"backoff_none", "backoff_exc"}
    /\ counts # Unset
    /\ hist.failsSinceOk = 2
    /\ consecutive_failures = 2

\* ---- C18 ----------------------------------------------------------------
\* C18: between two consecutive polls run() sleeps exactly once: the backoff
\* wait after a failed poll, CHECK_INTERVAL_SECONDS after a successful one;
\* no poll starts before that sleep is over.
C18_OneSleepPerIteration ==
    /\ (pc = "fetch" /\ outcome # "none") =>
          /\ hist.sleepCalls = 1
          /\ sleepLeft = 0
          /\ hist.slept = sleepArg
          /\ sleepArg = (IF outcome = "ok" THEN CHECK_INTERVAL_SECONDS
                         ELSE Min2(CHECK_INTERVAL_SECONDS * (2 ^ consecutive_failures),
                                   MAX_BACKOFF_SECONDS))
    /\ pc \in Sleeping =>
          /\ hist.sleepCalls = 1
          /\ (pc = "idle") <=> (outcome = "ok")
    /\ pc \in {"alert", "email", "thread"} => hist.sleepCalls = 0

\* the next poll is due after an open poll and its notification: the loop
\* has slept CHECK_INTERVAL_SECONDS, once
C18_Witness ==
    /\ pc = "fetch"
    /\ outcome = "ok"
    /\ notifyCalls = 1
    /\ hist.sleepCalls = 1
    /\ hist.slept = CHECK_INTERVAL_SECONDS

\* ---- C20 ----------------------------------------------------------------
\* C20: the threads ever started are as many as the notify calls that
\* reached their last step, at most as many as the successful polls with
\* enrolled < limit; no secondary email is attempted without an open poll
\* before it, and each thread attempts its email at most once.
C20_ThreadsAndPolls ==
    /\ Len(threads) = hist.notifyDone
    /\ hist.notifyDone <= hist.openPolls
    /\ \A i \in 1..Len(threads) :
          /\ Len(threads[i].mails) <= 1
          /\ Attempted(threads[i]) <=> Len(threads[i].mails) = 1
          /\ Len(threads[i].mails) > 0 => hist.openPolls >= 1

\* a second open poll whose notify has not reached its last step, after the
\* first thread has attempted its email
C20_Witness ==
    /\ hist.openPolls = 2
    /\ hist.notifyDone = 1
    /\ Len(threads) = 1
    /\ Len(threads[1].mails) = 1

\* ---- the cells, as the properties of the scan read them -------------------
CrnCells == {i \in 1..Len(cells) : cells[i] = TARGET_CRN}
FirstCrn == CHOOSE i \in CrnCells : \A j \in CrnCells : i <= j
MaxNumber == 10 + MaxCount

\* the decimal text of an integer, and the texts that are one
TextOf(z) == IF z < 0 THEN <<"-">> \o Str(0 - z) ELSE Str(z)
IsNumber(t) == \E z \in (0 - MaxNumber)..MaxNumber : TextOf(z) = t
ValueOf(t) == CHOOSE z \in (0 - MaxNumber)..MaxNumber : TextOf(z) = t

\* ---- C11 ----------------------------------------------------------------
\* C11: when the target identifier occurs with at least 16 further cells
\* after it and the cells at offsets +15 and +16 are non-negative integers l
\* and e, the scan returns exactly (enrolled, limit) = (e, l).
C11_ReturnsPair ==
    (result # NotRun /\ CrnCells # {}) =>
        \A e \in 0..MaxNumber, l \in 0..MaxNumber :
            (/\ FirstCrn + 16 <= Len(cells)
             /\ cells[FirstCrn + 16] = Str(e)
             /\ cells[FirstCrn + 15] = Str(l)) => result = <<"pair", e, l>>

\* a pair with two-digit limit and a smaller enrolment, read at +15 and +16
C11_Witness ==
    /\ result # NotRun
    /\ result[1] = "pair"
    /\ result[3] >= 10
    /\ result[2] >= 0
    /\ result[2] < result[3]
    /\ cells[FirstCrn + 15] = Str(result[3])

\* ---- C12 ----------------------------------------------------------------
\* C12: when the target identifier is absent, or the cell at offset +15 or
\* +16 from the match is missing or not a number, the scan returns None: it
\* does not raise and returns no pair.
C12_ReturnsNone ==
    result # NotRun =>
        ((\/ CrnCells = {}
          \/ FirstCrn + 16 > Len(cells)
          \/ ~IsNumber(cells[FirstCrn + 15])
          \/ ~IsNumber(cells[FirstCrn + 16])) => result = None)

\* the cell at +15 is there and the cell at +16 is missing
C12_Witness ==
    /\ result = None
    /\ CrnCells # {}
    /\ FirstCrn + 15 = Len(cells)

\* ---- C13 ----------------------------------------------------------------
\* C13: every pair the scan returns has enrolled >= 0 and limit >= 0.
C13_NonNegativePair ==
    (result # NotRun /\ result[1] = "pair") => (result[2] >= 0 /\ result[3] >= 0)

\* ---- C19 ----------------------------------------------------------------
\* C19: the scan decides on the first cell equal to the target identifier
\* only: without a parsable pair at its offsets the result is None, whatever
\* later occurrences hold, and with one the result is that pair.
C19_FirstMatchDecides ==
    (result # NotRun /\ CrnCells # {}) =>
        IF /\ FirstCrn + 16 <= Len(cells)
           /\ IsNumber(cells[FirstCrn + 15])
           /\ IsNumber(cells[FirstCrn + 16])
        THEN result = <<"pair", ValueOf(cells[FirstCrn + 16]),
                        ValueOf(cells[FirstCrn + 15])>>
        ELSE result = None

\* the first occurrence has no pair, a later one has the pair (0, 1)
C19_Witness ==
    /\ result = None
    /\ \E j \in CrnCells :
          /\ j > FirstCrn
          /\ j + 16 <= Len(cells)
          /\ cells[j + 15] = Str(1)
          /\ cells[j + 16] = Str(0)

====
